---- MODULE Spec2Model ----
(***************************************************************************)
(* Job orchestration and anomaly correction engine of the transcript       *)
(* reviewer: the in-memory job store (MemStorage), the upload handler and  *)
(* the background pipeline (processTranscription, transcribeAudio,         *)
(* analyzeForAnomalies, reviewSegmentsWithLLM), the correction handlers    *)
(* and the subtitle export.                                                *)
(*                                                                         *)
(* A text is a sequence of one-character strings.  JavaScript runs each    *)
(* task to completion: the steps between two real suspensions (ffmpeg, a   *)
(* model call) are separate steps of the model, so that every store write  *)
(* is a state, but no other task runs between them (see Busy).             *)
(***************************************************************************)
EXTENDS Integers, Sequences, FiniteSets, TLC

VARIABLES
    jobs,      \* MemStorage.jobs: job id -> job record (NoJob before createJob)
    pipe,      \* per job: position and locals of the background pipeline; logged is
               \* what console.error reported, pushedBy the ids each batch pushed
    res,       \* the last HTTP response sent by a correction/edit/export handler
    userOps,   \* number of correction, edit and cleanup requests served so far
    fnIn,      \* input of the pure-function specifications
    fnOut,     \* output of the pure-function specifications
    reqs       \* per correction request in flight: its position and its body

vars == <<jobs, pipe, res, userOps, fnIn, fnOut, reqs>>

----------------------------------------------------------------------------
(* Texts *)

Undefined == <<"undefined">>

UndefinedNum == -1

WordChars == {"a", "b", "c", "e", "h", "r", "t", "A", "T", "0", "1", "2"}

SpaceChars == {" ", "\n"}

IsWordChar(c) == c \in WordChars

IsSpaceChar(c) == c \in SpaceChars

LowerChar(c) ==
    CASE c = "A" -> "a"
      [] c = "T" -> "t"
      [] OTHER -> c

toLowerCase(s) == [k \in 1..Len(s) |-> LowerChar(s[k])]

\* First index at which pat occurs in s (case-sensitively), 0 when it does not.
indexOf(s, pat) ==
    LET hits == {k \in 1..(Len(s) - Len(pat) + 1) : SubSeq(s, k, k + Len(pat) - 1) = pat}
    IN  IF hits = {} THEN 0 ELSE CHOOSE k \in hits : \A m \in hits : k <= m

includes(s, pat) == indexOf(s, pat) # 0

\* The replacement text of String.prototype.replace: "$$" stands for "$" and
\* "$&" for the matched text; every other character stands for itself.
RECURSIVE expandReplacement(_, _)
expandReplacement(rep, matched) ==
    IF rep = <<>> THEN <<>>
    ELSE IF Len(rep) >= 2 /\ rep[1] = "$" /\ rep[2] = "$"
         THEN <<"$">> \o expandReplacement(SubSeq(rep, 3, Len(rep)), matched)
    ELSE IF Len(rep) >= 2 /\ rep[1] = "$" /\ rep[2] = "&"
         THEN matched \o expandReplacement(SubSeq(rep, 3, Len(rep)), matched)
    ELSE <<rep[1]>> \o expandReplacement(Tail(rep), matched)

\* s.replace(pat, rep) with a string pattern: the first occurrence only.
replace(s, pat, rep) ==
    LET k == indexOf(s, pat)
    IN  IF k = 0 THEN s
        ELSE SubSeq(s, 1, k - 1) \o expandReplacement(rep, pat)
             \o SubSeq(s, k + Len(pat), Len(s))

----------------------------------------------------------------------------
(* The rule pass's regular expression /\b(\w+)\s+\1\b/i *)

\* The matches that start at i: <<e, f>> where s[i..e] is the group (\w+),
\* s[e+1..f] is \s+, and the back-reference \1 matches s[f+1..f+e-i+1]
\* case-insensitively, between two word boundaries.
MatchesAt(s, i) ==
    {ef \in (i..Len(s)) \X (i..Len(s)) :
        LET e == ef[1]
            f == ef[2]
            n == e - i + 1
        IN  /\ i = 1 \/ ~IsWordChar(s[i - 1])
            /\ \A k \in i..e : IsWordChar(s[k])
            /\ e < f
            /\ \A k \in (e + 1)..f : IsSpaceChar(s[k])
            /\ f + n <= Len(s)
            /\ toLowerCase(SubSeq(s, f + 1, f + n)) = toLowerCase(SubSeq(s, i, e))
            /\ f + n = Len(s) \/ ~IsWordChar(s[f + n + 1])}

NoMatch == [found |-> FALSE, m0 |-> <<>>, m1 |-> <<>>]

\* text.match(re) without the g flag: the leftmost match only; m0 is the
\* whole match and m1 the captured word.
repeatedWordMatch(s) ==
    LET starts == {i \in 1..Len(s) : MatchesAt(s, i) # {}}
        first  == {i \in starts : \A m \in starts : i <= m}
        found  == UNION {{[found |-> TRUE,
                           m0 |-> SubSeq(s, i, ef[2] + (ef[1] - i + 1)),
                           m1 |-> SubSeq(s, i, ef[1])] :
                             ef \in {x \in MatchesAt(s, i) :
                                        \A y \in MatchesAt(s, i) :
                                            x[1] > y[1] \/ (x[1] = y[1] /\ x[2] >= y[2])}} :
                         i \in first}
    IN  IF starts = {} THEN NoMatch ELSE CHOOSE r \in found : TRUE

----------------------------------------------------------------------------
(* Bounds and inputs *)

\* Requests (corrections, manual edits, cleanups) served in one run.
MaxUserOps == 2

\* reviewSegmentsWithLLM's batchSize, scaled from 50 down to 2 so that a
\* three-segment transcript is reviewed in two batches.
batchSize == 2

JobIds == {1, 2}

\* The jobs that are uploaded; job 2 stays unknown to the store.
UploadJobs == {1}

MimeTypes == {"audio/mpeg", "video/mp4"}

None == <<>>

Some(x) == <<x>>

the == <<"t", "h", "e">>

ther == <<"t", "h", "e", "r">>

Ther == <<"T", "h", "e", "r">>

there == <<"t", "h", "e", "r", "e">>

There == <<"T", "h", "e", "r", "e">>

sp == <<" ">>

t0 == <<"0", "0", ":", "0", "0", ":", "0", "0", ",", "0", "0", "0">>

t2 == <<"0", "0", ":", "0", "0", ":", "0", "2", ",", "0", "0", "0">>

Elem(id, text) == [id |-> id, startTime |-> t0, endTime |-> t2, text |-> text]

\* A schema-conformant transcript of three segments: a repeated word, a
\* word the reviewer flags that occurs twice, and two repeated words.
GoodTranscript ==
    << Elem(1, the \o sp \o the \o sp \o <<"c", "a", "t">>),
       Elem(2, ther \o sp \o <<"a">> \o sp \o ther),
       Elem(3, <<"a", " ", "a", " ", "b", " ", "b">>) >>

\* What result.text of the transcription call may hold.
TranscriptPayloads ==
    { [kind |-> "unparsable", elems |-> <<>>],
      [kind |-> "object", elems |-> <<>>],
      [kind |-> "array", elems |-> <<>>],
      [kind |-> "array", elems |-> GoodTranscript],
      [kind |-> "array", elems |-> << Elem(1, Ther) >>],
      [kind |-> "array", elems |-> << Elem(UndefinedNum, ther) >>],
      [kind |-> "array", elems |-> << Elem(1, ther), Elem(2, Undefined) >>] }

\* confidence is in hundredths: 95 stands for 0.95.
Item(seg, flagged, suggestion, autoFix) ==
    [isNull |-> FALSE, segmentId |-> seg, flaggedText |-> flagged,
     suggestion |-> suggestion, reason |-> "typo",
     confidence |-> IF autoFix THEN 95 ELSE 0, autoFix |-> autoFix]

NullItem ==
    [isNull |-> TRUE, segmentId |-> UndefinedNum, flaggedText |-> <<>>,
     suggestion |-> <<>>, reason |-> "", confidence |-> 0, autoFix |-> FALSE]

\* What result.text of one review batch may hold ("throws": the call fails).
LlmResponses ==
    { [kind |-> "throws", items |-> <<>>],
      [kind |-> "unparsable", items |-> <<>>],
      [kind |-> "object", items |-> <<>>],
      [kind |-> "array", items |-> <<>>],
      [kind |-> "array", items |-> << Item(2, ther, there, FALSE),
                                      Item(3, Ther, There, FALSE) >>],
      [kind |-> "array", items |-> << Item(2, ther, there, TRUE),
                                      Item(1, the \o sp \o the, the, TRUE) >>],
      [kind |-> "array", items |-> << Item(2, ther, <<>>, TRUE),
                                      Item(9, ther, there, TRUE) >>],
      [kind |-> "array", items |-> << Item(1, ther, there, FALSE),
                                      Item(2, Ther, There, FALSE),
                                      NullItem,
                                      Item(3, ther, there, FALSE) >>] }

\* What a failing external call throws: an Error with a message or with an
\* empty one, a value that is no Error and has no message (a string), and
\* null, whose message cannot be read.
Errors ==
    { [isError |-> TRUE, message |-> "boom", nullish |-> FALSE],
      [isError |-> TRUE, message |-> "", nullish |-> FALSE],
      [isError |-> FALSE, message |-> "", nullish |-> FALSE],
      [isError |-> FALSE, message |-> "", nullish |-> TRUE] }

SyntaxError ==
    [isError |-> TRUE, message |-> "Unexpected token in JSON", nullish |-> FALSE]

TypeError ==
    [isError |-> TRUE, message |-> "Cannot read properties of undefined", nullish |-> FALSE]

NoError == [isError |-> FALSE, message |-> "", nullish |-> FALSE]

\* The corrections and the manual edit a user submits.
Corrections == {there, the}

EditTexts == { <<"a", " ", "c", "a", "t">> }

----------------------------------------------------------------------------
(* MemStorage *)

NoJob == [exists |-> FALSE]

createJob ==
    [exists |-> TRUE, status |-> "pending", progress |-> 0,
     errorMessage |-> None, segments |-> None, anomalies |-> None,
     completedAt |-> FALSE]

\* statusMessage is left out: every caller passes it undefined.
updateJobStatus(job, status, progress) ==
    IF ~job.exists THEN job
    ELSE [job EXCEPT !.status = status,
                     !.progress = progress,
                     !.completedAt = IF status = "completed" THEN TRUE ELSE @]

\* updateJobError that records the message and leaves the status.
updateJobErrorKeepsStatus(job, errorMessage) ==
    IF ~job.exists THEN job
    ELSE [job EXCEPT !.errorMessage = Some(errorMessage)]

updateJobError(job, errorMessage) ==
    IF ~job.exists THEN job
    ELSE [job EXCEPT !.status = "failed", !.errorMessage = Some(errorMessage)]

setJobSegments(job, segments) ==
    IF ~job.exists THEN job ELSE [job EXCEPT !.segments = Some(segments)]

setJobAnomalies(job, anomalies) ==
    IF ~job.exists THEN job ELSE [job EXCEPT !.anomalies = Some(anomalies)]

\* array.find(x => x.<field> === v): the index of the first such element, 0
\* when there is none.
findIndex(seq, field, v) ==
    LET hits == {k \in 1..Len(seq) : seq[k][field] = v}
    IN  IF hits = {} THEN 0 ELSE CHOOSE k \in hits : \A m \in hits : k <= m

\* `Replaced "<flaggedText>" with "<correction>"`, kept as its pieces.
ReplacedContext(flaggedText, correction) ==
    <<"Replaced \"">> \o flaggedText \o <<"\" with \"">> \o correction \o <<"\"">>

\* replaceInSegments that rewrites the segment's originalText as well.
replaceInSegmentsAndOriginal(segments, anomaly, correction) ==
    LET k == findIndex(segments, "id", anomaly.segmentId)
    IN  IF k = 0 THEN segments
        ELSE [segments EXCEPT
                 ![k].text = replace(@, anomaly.flaggedText, correction),
                 ![k].originalText = replace(@, anomaly.flaggedText, correction)]

\* The segment update both correction methods make for one anomaly.
replaceInSegments(segments, anomaly, correction) ==
    LET k == findIndex(segments, "id", anomaly.segmentId)
    IN  IF k = 0 THEN segments
        ELSE [segments EXCEPT
                 ![k].text = replace(@, anomaly.flaggedText, correction)]

\* resolve that flips the resolved flag.
resolveToggles(anomaly, correction) ==
    [anomaly EXCEPT !.resolved = ~@,
                    !.userCorrection = Some(correction),
                    !.context = ReplacedContext(anomaly.flaggedText, correction)]

resolve(anomaly, correction) ==
    [anomaly EXCEPT !.resolved = TRUE,
                    !.userCorrection = Some(correction),
                    !.context = ReplacedContext(anomaly.flaggedText, correction)]

applyCorrection(job, anomalyId, correction) ==
    IF ~job.exists \/ job.anomalies = None \/ job.segments = None THEN job
    ELSE LET anomalies == job.anomalies[1]
             a == findIndex(anomalies, "id", anomalyId)
         IN  IF a = 0 THEN job
             ELSE [job EXCEPT
                      !.anomalies = Some([anomalies EXCEPT ![a] = resolve(@, correction)]),
                      !.segments = Some(replaceInSegments(job.segments[1], anomalies[a],
                                                          correction))]

\* The loop of applySimilarCorrections from anomaly k on: the job after it and
\* the number of anomalies it resolved.
RECURSIVE similarLoop(_, _, _, _, _, _)
similarLoop(anomalies, segments, k, lowerFlaggedText, correction, correctionCount) ==
    IF k > Len(anomalies)
    THEN [anomalies |-> anomalies, segments |-> segments, count |-> correctionCount]
    ELSE IF ~anomalies[k].resolved
            /\ toLowerCase(anomalies[k].flaggedText) = lowerFlaggedText
         THEN similarLoop([anomalies EXCEPT ![k] = resolve(@, correction)],
                          replaceInSegments(segments, anomalies[k], correction),
                          k + 1, lowerFlaggedText, correction, correctionCount + 1)
         ELSE similarLoop(anomalies, segments, k + 1, lowerFlaggedText, correction,
                          correctionCount)

\* applySimilarCorrections that compares the flagged texts as they are.
applySimilarCorrectionsExactCase(job, flaggedText, correction) ==
    IF ~job.exists \/ job.anomalies = None \/ job.segments = None
    THEN [job |-> job, count |-> 0]
    ELSE LET r == similarLoop(job.anomalies[1], job.segments[1], 1,
                              flaggedText, correction, 0)
         IN  [job |-> [job EXCEPT !.anomalies = Some(r.anomalies),
                                  !.segments = Some(r.segments)],
              count |-> r.count]

\* storage.applySimilarCorrections: the job after it and the count it returns.
applySimilarCorrections(job, flaggedText, correction) ==
    IF ~job.exists \/ job.anomalies = None \/ job.segments = None
    THEN [job |-> job, count |-> 0]
    ELSE LET r == similarLoop(job.anomalies[1], job.segments[1], 1,
                              toLowerCase(flaggedText), correction, 0)
         IN  [job |-> [job EXCEPT !.anomalies = Some(r.anomalies),
                                  !.segments = Some(r.segments)],
              count |-> r.count]

\* updateSegmentText that overwrites the segment's originalText as well.
updateSegmentTextAndOriginal(job, segmentId, newText) ==
    IF ~job.exists \/ job.segments = None THEN job
    ELSE LET k == findIndex(job.segments[1], "id", segmentId)
         IN  IF k = 0 THEN job
             ELSE [job EXCEPT !.segments = Some([job.segments[1] EXCEPT
                                                    ![k].text = newText,
                                                    ![k].originalText = newText])]

updateSegmentText(job, segmentId, newText) ==
    IF ~job.exists \/ job.segments = None THEN job
    ELSE LET k == findIndex(job.segments[1], "id", segmentId)
         IN  IF k = 0 THEN job
             ELSE [job EXCEPT !.segments = Some([job.segments[1] EXCEPT ![k].text = newText])]

----------------------------------------------------------------------------
(* The analyzer: reviewSegmentsWithLLM and analyzeForAnomalies *)

\* The anomaly reviewSegmentsWithLLM builds from one item of a response.
llmAnomaly(item, id) ==
    [id |-> id,
     segmentId |-> item.segmentId,
     type |-> "grammar_issue",
     flaggedText |-> item.flaggedText,
     suggestion |-> item.suggestion,
     confidence |-> IF item.confidence = 0 THEN 85 ELSE item.confidence,
     context |-> <<item.reason>> \o (IF item.autoFix THEN <<" (Auto-applied)">> ELSE <<>>),
     resolved |-> item.autoFix,
     userCorrection |-> IF item.autoFix THEN Some(item.suggestion) ELSE None]

\* The for-of loop over a parsed response from item k on: reading a field of
\* a null item throws, and what was pushed before it stays pushed.
RECURSIVE pushItems(_, _, _, _)
pushItems(anomalies, items, k, nextId) ==
    IF k > Len(items) THEN [anomalies |-> anomalies, threw |-> FALSE, nextId |-> nextId]
    ELSE IF items[k].isNull THEN [anomalies |-> anomalies, threw |-> TRUE, nextId |-> nextId]
    ELSE pushItems(Append(anomalies, llmAnomaly(items[k], nextId)), items, k + 1, nextId + 1)

\* The body of the try block for one batch: the call, JSON.parse, the loop.
reviewBatch(anomalies, response, nextId) ==
    IF response.kind # "array"
    THEN [anomalies |-> anomalies, threw |-> TRUE, nextId |-> nextId]
    ELSE pushItems(anomalies, response.items, 1, nextId)

\* The rule pass from segment k on; a segment without text throws.
RECURSIVE rulePass(_, _, _, _)
rulePass(segments, k, anomalies, nextId) ==
    IF k > Len(segments) THEN [anomalies |-> anomalies, threw |-> FALSE, nextId |-> nextId]
    ELSE IF segments[k].text = Undefined
         THEN [anomalies |-> anomalies, threw |-> TRUE, nextId |-> nextId]
    ELSE LET repeated == repeatedWordMatch(segments[k].text)
         IN  IF repeated.found
             THEN rulePass(segments, k + 1,
                           Append(anomalies,
                                  [id |-> nextId,
                                   segmentId |-> segments[k].id,
                                   type |-> "grammar_issue",
                                   flaggedText |-> repeated.m0,
                                   suggestion |-> repeated.m1,
                                   confidence |-> 90,
                                   context |-> <<"Repeated word detected">>,
                                   resolved |-> FALSE,
                                   userCorrection |-> None]),
                           nextId + 1)
             ELSE rulePass(segments, k + 1, anomalies, nextId)

\* The duplicate test of the merge with the flagged texts compared as they are.
isDuplicateExactCase(finalAnomalies, llmAnom) ==
    \E k \in 1..Len(finalAnomalies) :
        /\ finalAnomalies[k].segmentId = llmAnom.segmentId
        /\ finalAnomalies[k].flaggedText = llmAnom.flaggedText

\* The isDuplicate test of the merge loop.
isDuplicate(finalAnomalies, llmAnom) ==
    \E k \in 1..Len(finalAnomalies) :
        /\ finalAnomalies[k].segmentId = llmAnom.segmentId
        /\ toLowerCase(finalAnomalies[k].flaggedText) = toLowerCase(llmAnom.flaggedText)

\* llmAnom.resolved && llmAnom.userCorrection: the empty string is falsy.
autoFixApplies(llmAnom) ==
    /\ llmAnom.resolved
    /\ llmAnom.userCorrection # None
    /\ llmAnom.userCorrection[1] # <<>>

\* One iteration of the merge loop: the segments and finalAnomalies after it.
mergeOne(segments, finalAnomalies, llmAnom) ==
    [segments |->
        IF autoFixApplies(llmAnom)
        THEN replaceInSegments(segments, llmAnom, llmAnom.userCorrection[1])
        ELSE segments,
     finalAnomalies |->
        IF isDuplicate(finalAnomalies, llmAnom) THEN finalAnomalies
        ELSE Append(finalAnomalies, llmAnom)]

\* JSON.parse(result.text) and the forEach that copies text to originalText.
parseSegments(payload) ==
    IF payload.kind = "unparsable" THEN [threw |-> TRUE, err |-> SyntaxError, segments |-> <<>>]
    ELSE IF payload.kind # "array" THEN [threw |-> TRUE, err |-> TypeError, segments |-> <<>>]
    ELSE [threw |-> FALSE, err |-> NoError,
          segments |-> [k \in 1..Len(payload.elems) |->
                           [id |-> payload.elems[k].id,
                            startTime |-> payload.elems[k].startTime,
                            endTime |-> payload.elems[k].endTime,
                            text |-> payload.elems[k].text,
                            originalText |-> payload.elems[k].text]]]

----------------------------------------------------------------------------
(* The upload handler and the background pipeline *)

IdlePipe ==
    [pc |-> "idle", mimeType |-> "", localFile |-> FALSE, tempAudio |-> FALSE,
     extractCalls |-> 0, transcribeCalls |-> 0, setErrorCalls |-> 0, err |-> NoError,
     resultText |-> [kind |-> "none", elems |-> <<>>],
     segments |-> <<>>, anomalies |-> <<>>, llmAnomalies |-> <<>>,
     finalAnomalies |-> <<>>, i |-> 0, m |-> 0, logged |-> {}, pushedBy |-> <<>>,
     nextId |-> 1]

NoResponse ==
    [op |-> "none", jobId |-> 0, anomalyId |-> 0, segmentId |-> 0, text |-> <<>>,
     applyToSimilar |-> FALSE, code |-> 0, message |-> "", count |-> 0]

\* The correction requests that are in flight together.
Requests == {1, 2}

NoRequest ==
    [pc |-> "none", jobId |-> 0, anomalyId |-> 0, correction |-> <<>>,
     applyToSimilar |-> FALSE, code |-> 0, message |-> "", count |-> 0,
     seen |-> NoJob]

\* The positions at which a pipeline waits for ffmpeg or for a model call,
\* or has ended; at every other position it is in the middle of a task.
WaitingPcs == {"idle", "extracting", "transcribing", "llmBatch", "done", "failed"}

\* Some task is running: no other task starts before it suspends or ends.
Busy == \E j \in JobIds : pipe[j].pc \notin WaitingPcs

Init ==
    /\ jobs = [j \in JobIds |-> NoJob]
    /\ pipe = [j \in JobIds |-> IdlePipe]
    /\ res = NoResponse
    /\ userOps = 0
    /\ fnIn = <<>>
    /\ fnOut = <<>>
    /\ reqs = [r \in Requests |-> NoRequest]

\* POST /api/upload: storage.createJob.
Upload(j, mimeType) ==
    /\ ~Busy
    /\ ~jobs[j].exists
    /\ jobs' = [jobs EXCEPT ![j] = createJob]
    /\ pipe' = [pipe EXCEPT ![j].pc = "created", ![j].mimeType = mimeType,
                            ![j].localFile = TRUE]
    /\ UNCHANGED <<res, userOps, fnIn, fnOut, reqs>>

\* processTranscription is called and runs to its first await.
StartProcessing(j) ==
    /\ pipe[j].pc = "created"
    /\ jobs' = [jobs EXCEPT ![j] = updateJobStatus(@, "processing", 10)]
    /\ pipe' = [pipe EXCEPT ![j].pc = "markUploading"]
    /\ UNCHANGED <<res, userOps, fnIn, fnOut, reqs>>

\* The handler goes on: "Update status to uploading".
MarkUploading(j) ==
    /\ pipe[j].pc = "markUploading"
    /\ jobs' = [jobs EXCEPT ![j] = updateJobStatus(@, "uploading", 5)]
    /\ pipe' = [pipe EXCEPT ![j].pc = "enterTranscribe"]
    /\ UNCHANGED <<res, userOps, fnIn, fnOut, reqs>>

\* transcribeAudio starts: a video goes to ffmpeg, an audio file is read.
EnterTranscribe(j) ==
    /\ pipe[j].pc = "enterTranscribe"
    /\ IF pipe[j].mimeType = "video/mp4"
       THEN /\ jobs' = [jobs EXCEPT ![j] = updateJobStatus(@, "processing", 10)]
            /\ pipe' = [pipe EXCEPT ![j].pc = "extracting", ![j].extractCalls = @ + 1]
       ELSE /\ jobs' = [jobs EXCEPT ![j] = updateJobStatus(@, "processing", 20)]
            /\ pipe' = [pipe EXCEPT ![j].pc = "readFile"]
    /\ UNCHANGED <<res, userOps, fnIn, fnOut, reqs>>

\* extractAudio resolves: the temporary audio file exists.
ExtractAudioOk(j) ==
    /\ ~Busy
    /\ pipe[j].pc = "extracting"
    /\ jobs' = [jobs EXCEPT ![j] = updateJobStatus(@, "processing", 20)]
    /\ pipe' = [pipe EXCEPT ![j].pc = "readFile", ![j].tempAudio = TRUE]
    /\ UNCHANGED <<res, userOps, fnIn, fnOut, reqs>>

\* ExtractAudioFails that writes the status "failed" through updateJobStatus.
ExtractAudioFailsMarksFailed(j, e) ==
    /\ ~Busy
    /\ pipe[j].pc = "extracting"
    /\ jobs' = [jobs EXCEPT ![j] = updateJobStatus(@, "failed", @.progress)]
    /\ pipe' = [pipe EXCEPT ![j].pc = "catch", ![j].err = e]
    /\ UNCHANGED <<res, userOps, fnIn, fnOut, reqs>>

\* extractAudio rejects.
ExtractAudioFails(j, e) ==
    /\ ~Busy
    /\ pipe[j].pc = "extracting"
    /\ pipe' = [pipe EXCEPT ![j].pc = "catch", ![j].err = e]
    /\ UNCHANGED <<jobs, res, userOps, fnIn, fnOut, reqs>>

\* ReadFile that issues the transcription call before the status is written.
ReadFileCallsFirst(j) ==
    /\ pipe[j].pc = "readFile"
    /\ pipe' = [pipe EXCEPT ![j].pc = "transcribing", ![j].transcribeCalls = @ + 1]
    /\ UNCHANGED <<jobs, res, userOps, fnIn, fnOut, reqs>>

\* The file is read and the transcription call is issued.
ReadFile(j) ==
    /\ pipe[j].pc = "readFile"
    /\ jobs' = [jobs EXCEPT ![j] = updateJobStatus(@, "transcribing", 30)]
    /\ pipe' = [pipe EXCEPT ![j].pc = "transcribing", ![j].transcribeCalls = @ + 1]
    /\ UNCHANGED <<res, userOps, fnIn, fnOut, reqs>>

\* The transcription call returns: the temporary file is unlinked.
TranscribeReturns(j, payload) ==
    /\ ~Busy
    /\ pipe[j].pc = "transcribing"
    /\ jobs' = [jobs EXCEPT ![j] = updateJobStatus(@, "transcribing", 70)]
    /\ pipe' = [pipe EXCEPT ![j].pc = "parse", ![j].resultText = payload,
                            ![j].tempAudio = FALSE]
    /\ UNCHANGED <<res, userOps, fnIn, fnOut, reqs>>

\* TranscribeFails that issues the transcription call once more before it
\* gives up.
TranscribeFailsRetries(j, e) ==
    /\ ~Busy
    /\ pipe[j].pc = "transcribing"
    /\ IF pipe[j].transcribeCalls < 2
       THEN pipe' = [pipe EXCEPT ![j].pc = "readFile"]
       ELSE pipe' = [pipe EXCEPT ![j].pc = "catch", ![j].err = e]
    /\ UNCHANGED <<jobs, res, userOps, fnIn, fnOut, reqs>>

\* The transcription call throws: control leaves for the catch blocks.
TranscribeFails(j, e) ==
    /\ ~Busy
    /\ pipe[j].pc = "transcribing"
    /\ pipe' = [pipe EXCEPT ![j].pc = "catch", ![j].err = e]
    /\ UNCHANGED <<jobs, res, userOps, fnIn, fnOut, reqs>>

\* Parse that stores the parsed segments on the job at once.
ParsePersistsEarly(j) ==
    /\ pipe[j].pc = "parse"
    /\ LET r == parseSegments(pipe[j].resultText)
       IN  IF r.threw
           THEN /\ pipe' = [pipe EXCEPT ![j].pc = "catch", ![j].err = r.err]
                /\ UNCHANGED jobs
           ELSE /\ pipe' = [pipe EXCEPT ![j].pc = "rulePass", ![j].segments = r.segments]
                /\ jobs' = [jobs EXCEPT ![j] =
                                setJobSegments(updateJobStatus(@, "analyzing", 85),
                                               r.segments)]
    /\ UNCHANGED <<res, userOps, fnIn, fnOut, reqs>>

\* JSON.parse, originalText, onProgress("analyzing", 85).
Parse(j) ==
    /\ pipe[j].pc = "parse"
    /\ LET r == parseSegments(pipe[j].resultText)
       IN  IF r.threw
           THEN /\ pipe' = [pipe EXCEPT ![j].pc = "catch", ![j].err = r.err]
                /\ UNCHANGED jobs
           ELSE /\ pipe' = [pipe EXCEPT ![j].pc = "rulePass", ![j].segments = r.segments]
                /\ jobs' = [jobs EXCEPT ![j] = updateJobStatus(@, "analyzing", 85)]
    /\ UNCHANGED <<res, userOps, fnIn, fnOut, reqs>>

\* analyzeForAnomalies: the rule pass, then the first batch call (none for
\* an empty transcript).
RulePass(j) ==
    /\ pipe[j].pc = "rulePass"
    /\ \E r \in {rulePass(pipe[j].segments, 1, <<>>, pipe[j].nextId)} :
          IF r.threw
          THEN pipe' = [pipe EXCEPT ![j].pc = "catch", ![j].err = TypeError]
          ELSE pipe' = [pipe EXCEPT
                           ![j].pc = IF Len(pipe[j].segments) = 0 THEN "merge" ELSE "llmBatch",
                           ![j].anomalies = r.anomalies,
                           ![j].finalAnomalies = r.anomalies,
                           ![j].nextId = r.nextId,
                           ![j].i = 0,
                           ![j].m = 1]
    /\ UNCHANGED <<jobs, res, userOps, fnIn, fnOut, reqs>>

\* One batch call ends (response.kind = "throws": it throws); a failure is
\* logged with the batch's start index; the loop goes on to the next batch.
LlmBatch(j, response) ==
    /\ ~Busy
    /\ pipe[j].pc = "llmBatch"
    /\ LET r == reviewBatch(pipe[j].llmAnomalies, response, pipe[j].nextId)
           next == pipe[j].i + batchSize
       IN  pipe' = [pipe EXCEPT
                       ![j].llmAnomalies = r.anomalies,
                       ![j].nextId = r.nextId,
                       ![j].logged = IF r.threw THEN @ \cup {pipe[j].i} ELSE @,
                       ![j].pushedBy = Append(@, [i |-> pipe[j].i,
                                                  ids |-> pipe[j].nextId..(r.nextId - 1)]),
                       ![j].i = next,
                       ![j].pc = IF next < Len(pipe[j].segments) THEN "llmBatch" ELSE "merge"]
    /\ UNCHANGED <<jobs, res, userOps, fnIn, fnOut, reqs>>

\* One iteration of the merge loop of analyzeForAnomalies.
MergeStep(j) ==
    /\ pipe[j].pc = "merge"
    /\ pipe[j].m <= Len(pipe[j].llmAnomalies)
    /\ LET r == mergeOne(pipe[j].segments, pipe[j].finalAnomalies,
                         pipe[j].llmAnomalies[pipe[j].m])
       IN  pipe' = [pipe EXCEPT ![j].segments = r.segments,
                               ![j].finalAnomalies = r.finalAnomalies,
                               ![j].m = @ + 1]
    /\ UNCHANGED <<jobs, res, userOps, fnIn, fnOut, reqs>>

\* The merge loop is over: onProgress("completed", 100), and transcribeAudio returns.
ProgressCompleted(j) ==
    /\ pipe[j].pc = "merge"
    /\ pipe[j].m > Len(pipe[j].llmAnomalies)
    /\ jobs' = [jobs EXCEPT ![j] = updateJobStatus(@, "completed", 100)]
    /\ pipe' = [pipe EXCEPT ![j].pc = "setSegments"]
    /\ UNCHANGED <<res, userOps, fnIn, fnOut, reqs>>

SetSegments(j) ==
    /\ pipe[j].pc = "setSegments"
    /\ jobs' = [jobs EXCEPT ![j] = setJobSegments(@, pipe[j].segments)]
    /\ pipe' = [pipe EXCEPT ![j].pc = "setAnomalies"]
    /\ UNCHANGED <<res, userOps, fnIn, fnOut, reqs>>

SetAnomalies(j) ==
    /\ pipe[j].pc = "setAnomalies"
    /\ jobs' = [jobs EXCEPT ![j] = setJobAnomalies(@, pipe[j].finalAnomalies)]
    /\ pipe' = [pipe EXCEPT ![j].pc = "markCompleted"]
    /\ UNCHANGED <<res, userOps, fnIn, fnOut, reqs>>

MarkCompleted(j) ==
    /\ pipe[j].pc = "markCompleted"
    /\ jobs' = [jobs EXCEPT ![j] = updateJobStatus(@, "completed", 100)]
    /\ pipe' = [pipe EXCEPT ![j].pc = "done"]
    /\ UNCHANGED <<res, userOps, fnIn, fnOut, reqs>>

\* The catch of processTranscription: updateJobError, then rethrow.
CatchProcess(j) ==
    /\ pipe[j].pc = "catch"
    /\ jobs' = [jobs EXCEPT ![j] =
                    updateJobError(@, IF pipe[j].err.isError THEN pipe[j].err.message
                                      ELSE "Transcription failed")]
    /\ pipe' = [pipe EXCEPT ![j].pc = "catchHandler", ![j].setErrorCalls = @ + 1]
    /\ UNCHANGED <<res, userOps, fnIn, fnOut, reqs>>

\* The upload handler's .catch: err.message || "Transcription failed";
\* reading the message of null throws and nothing is written.
CatchHandler(j) ==
    /\ pipe[j].pc = "catchHandler"
    /\ jobs' = [jobs EXCEPT ![j] =
                    IF pipe[j].err.nullish THEN @
                    ELSE updateJobError(@, IF pipe[j].err.message # "" THEN pipe[j].err.message
                                           ELSE "Transcription failed")]
    /\ pipe' = [pipe EXCEPT ![j].pc = "failed",
                            ![j].setErrorCalls = IF pipe[j].err.nullish THEN @ ELSE @ + 1]
    /\ UNCHANGED <<res, userOps, fnIn, fnOut, reqs>>

----------------------------------------------------------------------------
(* The correction and manual-edit handlers *)

Respond(op, jobId, anomalyId, segmentId, text, applyToSimilar, code, message, count) ==
    [op |-> op, jobId |-> jobId, anomalyId |-> anomalyId, segmentId |-> segmentId,
     text |-> text, applyToSimilar |-> applyToSimilar, code |-> code,
     message |-> message, count |-> count]

\* The anomaly ids a request may name: those of the job, and an unknown one.
RequestAnomalyIds(jobId) ==
    {0} \cup (IF jobs[jobId].exists /\ jobs[jobId].anomalies # None
              THEN {jobs[jobId].anomalies[1][k].id : k \in 1..Len(jobs[jobId].anomalies[1])}
              ELSE {})

RequestSegmentIds == {1, 2, 9}

\* POST /api/corrections.
PostCorrection(jobId, anomalyId, correction, applyToSimilar) ==
    /\ ~Busy
    /\ userOps < MaxUserOps
    /\ userOps' = userOps + 1
    /\ LET job == jobs[jobId]
           a == IF job.exists /\ job.anomalies # None
                THEN findIndex(job.anomalies[1], "id", anomalyId) ELSE 0
       IN  IF ~job.exists
           THEN /\ res' = Respond("corrections", jobId, anomalyId, 0, correction,
                                  applyToSimilar, 404, "Job not found", 0)
                /\ UNCHANGED jobs
           ELSE IF a = 0
           THEN /\ res' = Respond("corrections", jobId, anomalyId, 0, correction,
                                  applyToSimilar, 404, "Anomaly not found", 0)
                /\ UNCHANGED jobs
           ELSE IF applyToSimilar
           THEN LET r == applySimilarCorrections(job, job.anomalies[1][a].flaggedText,
                                                 correction)
                IN  /\ jobs' = [jobs EXCEPT ![jobId] = r.job]
                    /\ res' = Respond("corrections", jobId, anomalyId, 0, correction,
                                      TRUE, 200, "Applied correction to occurrence(s)",
                                      r.count)
           ELSE /\ jobs' = [jobs EXCEPT ![jobId] = applyCorrection(job, anomalyId, correction)]
                /\ res' = Respond("corrections", jobId, anomalyId, 0, correction,
                                  FALSE, 200, "Correction applied", 0)
    /\ UNCHANGED <<pipe, fnIn, fnOut, reqs>>

\* PatchSegment that writes the text to the segment of that id in every job.
PatchSegmentEveryJob(jobId, segmentId, text) ==
    /\ ~Busy
    /\ userOps < MaxUserOps
    /\ userOps' = userOps + 1
    /\ IF ~jobs[jobId].exists
       THEN /\ res' = Respond("segments", jobId, 0, segmentId, text, FALSE,
                              404, "Job not found", 0)
            /\ UNCHANGED jobs
       ELSE /\ jobs' = [j \in JobIds |-> updateSegmentText(jobs[j], segmentId, text)]
            /\ res' = Respond("segments", jobId, 0, segmentId, text, FALSE,
                              200, "Segment updated successfully", 0)
    /\ UNCHANGED <<pipe, fnIn, fnOut, reqs>>

\* PATCH /api/jobs/:id/segments/:segmentId.
PatchSegment(jobId, segmentId, text) ==
    /\ ~Busy
    /\ userOps < MaxUserOps
    /\ userOps' = userOps + 1
    /\ IF ~jobs[jobId].exists
       THEN /\ res' = Respond("segments", jobId, 0, segmentId, text, FALSE,
                              404, "Job not found", 0)
            /\ UNCHANGED jobs
       ELSE /\ jobs' = [jobs EXCEPT ![jobId] = updateSegmentText(@, segmentId, text)]
            /\ res' = Respond("segments", jobId, 0, segmentId, text, FALSE,
                              200, "Segment updated successfully", 0)
    /\ UNCHANGED <<pipe, fnIn, fnOut, reqs>>

\* Cleanup that also resets the status of the job whose file it deletes.
CleanupMarksJob(jobId) ==
    /\ ~Busy
    /\ userOps < MaxUserOps
    /\ userOps' = userOps + 1
    /\ pipe' = [pipe EXCEPT ![jobId].localFile =
                                IF jobs[jobId].exists /\ @ THEN FALSE ELSE @]
    /\ jobs' = [jobs EXCEPT ![jobId] = updateJobStatus(@, "pending", 0)]
    /\ res' = Respond("cleanup", jobId, 0, 0, <<>>, FALSE, 200, "Cleanup initiated", 0)
    /\ UNCHANGED <<fnIn, fnOut, reqs>>

\* POST /api/cleanup/:id: cleanupJob deletes the uploaded file of a known
\* job when it still exists; the response is the same in every case.
Cleanup(jobId) ==
    /\ ~Busy
    /\ userOps < MaxUserOps
    /\ userOps' = userOps + 1
    /\ pipe' = [pipe EXCEPT ![jobId].localFile =
                                IF jobs[jobId].exists /\ @ THEN FALSE ELSE @]
    /\ res' = Respond("cleanup", jobId, 0, 0, <<>>, FALSE, 200, "Cleanup initiated", 0)
    /\ UNCHANGED <<jobs, fnIn, fnOut, reqs>>

----------------------------------------------------------------------------

Next ==
    \/ \E j \in UploadJobs, mimeType \in MimeTypes : Upload(j, mimeType)
    \/ \E j \in JobIds : StartProcessing(j)
    \/ \E j \in JobIds : MarkUploading(j)
    \/ \E j \in JobIds : EnterTranscribe(j)
    \/ \E j \in JobIds : ExtractAudioOk(j)
    \/ \E j \in JobIds, e \in Errors : ExtractAudioFails(j, e)
    \/ \E j \in JobIds : ReadFile(j)
    \/ \E j \in JobIds, payload \in TranscriptPayloads : TranscribeReturns(j, payload)
    \/ \E j \in JobIds, e \in Errors : TranscribeFails(j, e)
    \/ \E j \in JobIds : Parse(j)
    \/ \E j \in JobIds : RulePass(j)
    \/ \E j \in JobIds, response \in LlmResponses : LlmBatch(j, response)
    \/ \E j \in JobIds : MergeStep(j)
    \/ \E j \in JobIds : ProgressCompleted(j)
    \/ \E j \in JobIds : SetSegments(j)
    \/ \E j \in JobIds : SetAnomalies(j)
    \/ \E j \in JobIds : MarkCompleted(j)
    \/ \E j \in JobIds : CatchProcess(j)
    \/ \E j \in JobIds : CatchHandler(j)
    \/ \E jobId \in JobIds, correction \in Corrections, applyToSimilar \in BOOLEAN :
          \E anomalyId \in RequestAnomalyIds(jobId) :
             PostCorrection(jobId, anomalyId, correction, applyToSimilar)
    \/ \E jobId \in JobIds, segmentId \in RequestSegmentIds, text \in EditTexts :
          PatchSegment(jobId, segmentId, text)
    \/ \E jobId \in JobIds : Cleanup(jobId)

Spec == Init /\ [][Next]_vars

\* A step of job j's pipeline: of its own code, or the return or the throw
\* of the external call it waits for.
PipelineStep(j) ==
    \/ StartProcessing(j)
    \/ MarkUploading(j)
    \/ EnterTranscribe(j)
    \/ ExtractAudioOk(j)
    \/ \E e \in Errors : ExtractAudioFails(j, e)
    \/ ReadFile(j)
    \/ \E payload \in TranscriptPayloads : TranscribeReturns(j, payload)
    \/ \E e \in Errors : TranscribeFails(j, e)
    \/ Parse(j)
    \/ RulePass(j)
    \/ \E response \in LlmResponses : LlmBatch(j, response)
    \/ MergeStep(j)
    \/ ProgressCompleted(j)
    \/ SetSegments(j)
    \/ SetAnomalies(j)
    \/ MarkCompleted(j)
    \/ CatchProcess(j)
    \/ CatchHandler(j)

\* The uploads, the pipelines and the cleanups: the steps that read or write
\* what a pipeline reads.
NextLive ==
    \/ \E j \in UploadJobs, mimeType \in MimeTypes : Upload(j, mimeType)
    \/ \E j \in JobIds : PipelineStep(j)
    \/ \E jobId \in JobIds : Cleanup(jobId)

\* The event loop runs every task that is ready, and every external call
\* returns or throws in the end.
SpecLive == Init /\ [][NextLive]_vars /\ \A j \in JobIds : WF_vars(PipelineStep(j))

----------------------------------------------------------------------------
(* Two jobs in flight together: both are uploaded, their pipelines
   interleave at their external calls, and requests name either of them *)

\* What the transcription call returns here: something unparsable, or one
\* segment with a repeated word.  Both jobs then hold a segment 1.
TwoJobsPayloads ==
    { [kind |-> "unparsable", elems |-> <<>>],
      [kind |-> "array", elems |-> << Elem(1, ther \o sp \o ther) >>] }

\* What a review batch returns here: a throw, or an auto-fixed item.
TwoJobsResponses ==
    { [kind |-> "throws", items |-> <<>>],
      [kind |-> "array", items |-> << Item(1, ther, there, TRUE) >>] }

TwoJobsErrors == { [isError |-> TRUE, message |-> "boom", nullish |-> FALSE] }

NextTwoJobs ==
    \/ \E j \in JobIds, mimeType \in MimeTypes : Upload(j, mimeType)
    \/ \E j \in JobIds : StartProcessing(j)
    \/ \E j \in JobIds : MarkUploading(j)
    \/ \E j \in JobIds : EnterTranscribe(j)
    \/ \E j \in JobIds : ExtractAudioOk(j)
    \/ \E j \in JobIds, e \in TwoJobsErrors : ExtractAudioFails(j, e)
    \/ \E j \in JobIds : ReadFile(j)
    \/ \E j \in JobIds, payload \in TwoJobsPayloads : TranscribeReturns(j, payload)
    \/ \E j \in JobIds, e \in TwoJobsErrors : TranscribeFails(j, e)
    \/ \E j \in JobIds : Parse(j)
    \/ \E j \in JobIds : RulePass(j)
    \/ \E j \in JobIds, response \in TwoJobsResponses : LlmBatch(j, response)
    \/ \E j \in JobIds : MergeStep(j)
    \/ \E j \in JobIds : ProgressCompleted(j)
    \/ \E j \in JobIds : SetSegments(j)
    \/ \E j \in JobIds : SetAnomalies(j)
    \/ \E j \in JobIds : MarkCompleted(j)
    \/ \E j \in JobIds : CatchProcess(j)
    \/ \E j \in JobIds : CatchHandler(j)
    \/ \E jobId \in JobIds, applyToSimilar \in BOOLEAN :
          \E anomalyId \in RequestAnomalyIds(jobId) :
             PostCorrection(jobId, anomalyId, the, applyToSimilar)
    \/ \E jobId \in JobIds, text \in EditTexts : PatchSegment(jobId, 1, text)
    \/ \E jobId \in JobIds : Cleanup(jobId)

SpecTwoJobs == Init /\ [][NextTwoJobs]_vars

----------------------------------------------------------------------------
(* Correction requests in flight together: each handler of POST
   /api/corrections is a chain of tasks cut at its awaits, and the tasks of
   two handlers interleave *)

\* The batch loop of reviewSegmentsWithLLM from batch k on, one response per
\* batch: a batch that throws is logged and the loop goes on.
RECURSIVE reviewSegmentsWithLLM(_, _, _, _)
reviewSegmentsWithLLM(anomalies, responses, k, nextId) ==
    IF k > Len(responses) THEN anomalies
    ELSE LET r == reviewBatch(anomalies, responses[k], nextId)
         IN  reviewSegmentsWithLLM(r.anomalies, responses, k + 1, r.nextId)

\* The merge loop of analyzeForAnomalies from llmAnomalies[m] on.
RECURSIVE mergeLoop(_, _, _, _)
mergeLoop(segments, finalAnomalies, llmAnomalies, m) ==
    IF m > Len(llmAnomalies)
    THEN [segments |-> segments, finalAnomalies |-> finalAnomalies]
    ELSE LET r == mergeOne(segments, finalAnomalies, llmAnomalies[m])
         IN  mergeLoop(r.segments, r.finalAnomalies, llmAnomalies, m + 1)

\* analyzeForAnomalies on well-formed segments: the rule pass, the review,
\* the merge.
analyzeForAnomalies(segments, responses) ==
    LET rule == rulePass(segments, 1, <<>>, 1)
        llmAnomalies == reviewSegmentsWithLLM(<<>>, responses, 1, rule.nextId)
    IN  mergeLoop(segments, rule.anomalies, llmAnomalies, 1)

\* What the reviewer answers for the two batches of GoodTranscript: a word
\* inside the repeated words of segment 1, and the second repeated word of
\* segment 3.
ReviewOfGoodTranscript ==
    << [kind |-> "array", items |-> << Item(1, the, there, FALSE) >>],
       [kind |-> "array", items |-> << Item(3, <<"b", " ", "b">>, <<"b">>, FALSE) >>] >>

\* The job processTranscription leaves behind for GoodTranscript.
AnalysedJob ==
    LET r == analyzeForAnomalies(
                 parseSegments([kind |-> "array", elems |-> GoodTranscript]).segments,
                 ReviewOfGoodTranscript)
    IN  updateJobStatus(
            setJobAnomalies(setJobSegments(updateJobStatus(createJob, "completed", 100),
                                           r.segments),
                            r.finalAnomalies),
            "completed", 100)

InitConcurrent ==
    /\ jobs = [j \in JobIds |-> IF j = 1 THEN AnalysedJob ELSE NoJob]
    /\ pipe = [j \in JobIds |-> IF j = 1 THEN [IdlePipe EXCEPT !.pc = "done"]
                                ELSE IdlePipe]
    /\ res = NoResponse
    /\ userOps = 0
    /\ fnIn = <<>>
    /\ fnOut = <<>>
    /\ reqs = [r \in Requests |-> NoRequest]

\* A request arrives: the body is parsed and storage.getJob is called, which
\* reads the map at once; the handler waits for its promise.
Arrive(r, jobId, anomalyId, correction, applyToSimilar) ==
    /\ reqs[r].pc = "none"
    /\ reqs' = [reqs EXCEPT ![r] =
                   [pc |-> "lookup", jobId |-> jobId, anomalyId |-> anomalyId,
                    correction |-> correction, applyToSimilar |-> applyToSimilar,
                    code |-> 0, message |-> "", count |-> 0, seen |-> jobs[jobId]]]
    /\ UNCHANGED <<jobs, pipe, res, userOps, fnIn, fnOut>>

\* ApplyRequest that corrects the record as getJob returned it and stores
\* that copy.
ApplyRequestOnCopy(r) ==
    /\ reqs[r].pc = "lookup"
    /\ LET job == reqs[r].seen
           a == IF job.exists /\ job.anomalies # None
                THEN findIndex(job.anomalies[1], "id", reqs[r].anomalyId) ELSE 0
       IN  IF ~job.exists
           THEN /\ reqs' = [reqs EXCEPT ![r].pc = "respond", ![r].code = 404,
                                        ![r].message = "Job not found"]
                /\ UNCHANGED jobs
           ELSE IF a = 0
           THEN /\ reqs' = [reqs EXCEPT ![r].pc = "respond", ![r].code = 404,
                                        ![r].message = "Anomaly not found"]
                /\ UNCHANGED jobs
           ELSE IF reqs[r].applyToSimilar
           THEN \E s \in {applySimilarCorrections(job, job.anomalies[1][a].flaggedText,
                                                  reqs[r].correction)} :
                    /\ jobs' = [jobs EXCEPT ![reqs[r].jobId] = s.job]
                    /\ reqs' = [reqs EXCEPT ![r].pc = "respond", ![r].code = 200,
                                   ![r].message = "Applied correction to occurrence(s)",
                                   ![r].count = s.count]
           ELSE /\ jobs' = [jobs EXCEPT ![reqs[r].jobId] =
                               applyCorrection(job, reqs[r].anomalyId, reqs[r].correction)]
                /\ reqs' = [reqs EXCEPT ![r].pc = "respond", ![r].code = 200,
                                        ![r].message = "Correction applied"]
    /\ UNCHANGED <<pipe, res, userOps, fnIn, fnOut>>

\* The handler goes on after getJob: a missing job and a missing anomaly
\* are answered 404; otherwise the storage method is called, which runs to
\* its end on the stored record (the record getJob returned is that same
\* object) before the handler waits again.
ApplyRequest(r) ==
    /\ reqs[r].pc = "lookup"
    /\ LET job == jobs[reqs[r].jobId]
           a == IF job.exists /\ job.anomalies # None
                THEN findIndex(job.anomalies[1], "id", reqs[r].anomalyId) ELSE 0
       IN  IF ~reqs[r].seen.exists
           THEN /\ reqs' = [reqs EXCEPT ![r].pc = "respond", ![r].code = 404,
                                        ![r].message = "Job not found"]
                /\ UNCHANGED jobs
           ELSE IF a = 0
           THEN /\ reqs' = [reqs EXCEPT ![r].pc = "respond", ![r].code = 404,
                                        ![r].message = "Anomaly not found"]
                /\ UNCHANGED jobs
           ELSE IF reqs[r].applyToSimilar
           THEN \E s \in {applySimilarCorrections(job, job.anomalies[1][a].flaggedText,
                                                  reqs[r].correction)} :
                    /\ jobs' = [jobs EXCEPT ![reqs[r].jobId] = s.job]
                    /\ reqs' = [reqs EXCEPT ![r].pc = "respond", ![r].code = 200,
                                   ![r].message = "Applied correction to occurrence(s)",
                                   ![r].count = s.count]
           ELSE /\ jobs' = [jobs EXCEPT ![reqs[r].jobId] =
                               applyCorrection(job, reqs[r].anomalyId, reqs[r].correction)]
                /\ reqs' = [reqs EXCEPT ![r].pc = "respond", ![r].code = 200,
                                        ![r].message = "Correction applied"]
    /\ UNCHANGED <<pipe, res, userOps, fnIn, fnOut>>

\* The storage promise is settled: the response is sent.
SendResponse(r) ==
    /\ reqs[r].pc = "respond"
    /\ res' = Respond("corrections", reqs[r].jobId, reqs[r].anomalyId, 0,
                      reqs[r].correction, reqs[r].applyToSimilar, reqs[r].code,
                      reqs[r].message, reqs[r].count)
    /\ reqs' = [reqs EXCEPT ![r].pc = "done"]
    /\ UNCHANGED <<jobs, pipe, userOps, fnIn, fnOut>>

\* The anomaly ids of AnalysedJob, and an unknown one.
ConcurrentAnomalyIds == {0} \cup {AnalysedJob.anomalies[1][k].id : k \in 1..Len(AnalysedJob.anomalies[1])}

NextConcurrent ==
    \/ \E r \in Requests, jobId \in JobIds, anomalyId \in ConcurrentAnomalyIds,
          correction \in Corrections, applyToSimilar \in BOOLEAN :
          Arrive(r, jobId, anomalyId, correction, applyToSimilar)
    \/ \E r \in Requests : ApplyRequest(r)
    \/ \E r \in Requests : SendResponse(r)

SpecConcurrent == InitConcurrent /\ [][NextConcurrent]_vars

----------------------------------------------------------------------------
(* The export: generateSrtContent on the server, handleExport and the export
   panel's generateSrtContent in the client *)

\* Segments in an exported sequence.
MaxExportSegs == 3

NotRun == <<"not run">>

nl == <<"\n">>

arrow == <<" ", "-", "-", ">", " ">>

Digits == <<"0", "1", "2", "3", "4", "5", "6", "7", "8", "9">>

\* String(n) of a non-negative integer: its decimal digits.
RECURSIVE digitsOf(_)
digitsOf(n) ==
    IF n < 10 THEN <<Digits[n + 1]>>
    ELSE digitsOf(n \div 10) \o <<Digits[(n % 10) + 1]>>

\* ${v} in a template literal, for a number or a missing value.
numToString(v) == IF v = UndefinedNum THEN Undefined ELSE digitsOf(v)

\* parts.join(sep) that adds the separator after every part.
joinAfterEach(parts, sep) ==
    LET loop[k \in 0..Len(parts)] ==
            IF k = 0 THEN <<>> ELSE loop[k - 1] \o parts[k] \o sep
    IN  loop[Len(parts)]

\* Array.prototype.join: the parts from left to right, the separator before
\* every part but the first; the empty string for no parts.
join(parts, sep) ==
    LET loop[k \in 0..Len(parts)] ==
            IF k = 0 THEN <<>>
            ELSE IF k = 1 THEN parts[1]
            ELSE loop[k - 1] \o sep \o parts[k]
    IN  loop[Len(parts)]

\* The server's generateSrtContent.
generateSrtContent(segments) ==
    join([k \in 1..Len(segments) |->
             numToString(segments[k].id) \o nl
             \o segments[k].startTime \o arrow \o segments[k].endTime \o nl
             \o segments[k].text \o nl],
         nl)

\* The home page's handleExport: nothing without segments, else the content
\* of the downloaded blob.
handleExport(jobSegments) ==
    IF jobSegments = None THEN NotRun
    ELSE LET segments == jobSegments[1]
         IN  join([k \in 1..Len(segments) |->
                      numToString(segments[k].id) \o nl
                      \o segments[k].startTime \o arrow \o segments[k].endTime \o nl
                      \o segments[k].text \o nl],
                  nl)

\* The export panel's generateSrtContent, copied and downloaded.
ExportPanel_generateSrtContent(segments) ==
    join([k \in 1..Len(segments) |->
             numToString(segments[k].id) \o nl
             \o segments[k].startTime \o arrow \o segments[k].endTime \o nl
             \o segments[k].text \o nl],
         nl)

\* Segments an export may be given: one- and two-digit ids, a missing id,
\* an empty text and a text of two lines.
ExportSegmentPool ==
    { Elem(1, the), Elem(12, <<>>), Elem(UndefinedNum, ther),
      Elem(3, <<"a", "\n", "b">>), Elem(2, the) }

ExportInputs ==
    UNION {[1..n -> ExportSegmentPool] : n \in 0..MaxExportSegs}

InitExport ==
    /\ jobs = [j \in JobIds |-> NoJob]
    /\ pipe = [j \in JobIds |-> IdlePipe]
    /\ res = NoResponse
    /\ userOps = 0
    /\ fnIn \in ExportInputs
    /\ fnOut = [server |-> NotRun, home |-> NotRun, panel |-> NotRun]
    /\ reqs = [r \in Requests |-> NoRequest]

ServerExport ==
    /\ fnOut.server = NotRun
    /\ fnOut' = [fnOut EXCEPT !.server = generateSrtContent(fnIn)]
    /\ UNCHANGED <<jobs, pipe, res, userOps, fnIn, reqs>>

HomeExport ==
    /\ fnOut.home = NotRun
    /\ fnOut' = [fnOut EXCEPT !.home = handleExport(Some(fnIn))]
    /\ UNCHANGED <<jobs, pipe, res, userOps, fnIn, reqs>>

PanelExport ==
    /\ fnOut.panel = NotRun
    /\ fnOut' = [fnOut EXCEPT !.panel = ExportPanel_generateSrtContent(fnIn)]
    /\ UNCHANGED <<jobs, pipe, res, userOps, fnIn, reqs>>

NextExport == ServerExport \/ HomeExport \/ PanelExport

SpecExport == InitExport /\ [][NextExport]_vars

----------------------------------------------------------------------------
(* The rule pass on one segment's text *)

\* Characters in a text given to the rule pass.
MaxTextLen == 7

RuleChars == {"a", "A", "b", " "}

RuleTexts == UNION {[1..n -> RuleChars] : n \in 0..MaxTextLen}

InitRule ==
    /\ jobs = [j \in JobIds |-> NoJob]
    /\ pipe = [j \in JobIds |-> IdlePipe]
    /\ res = NoResponse
    /\ userOps = 0
    /\ fnIn \in RuleTexts
    /\ fnOut = [ran |-> FALSE, anomalies |-> <<>>]
    /\ reqs = [r \in Requests |-> NoRequest]

\* The rule pass of analyzeForAnomalies on a transcript of one segment.
RunRulePass ==
    /\ ~fnOut.ran
    /\ fnOut' = [ran |-> TRUE,
                 anomalies |-> rulePass(<<Elem(1, fnIn)>>, 1, <<>>, 1).anomalies]
    /\ UNCHANGED <<jobs, pipe, res, userOps, fnIn, reqs>>

NextRule == RunRulePass

SpecRule == InitRule /\ [][NextRule]_vars

----------------------------------------------------------------------------
(* Claims *)

StatusOrder == <<"pending", "uploading", "processing", "transcribing", "analyzing",
                 "completed", "failed">>

Rank(status) == CHOOSE k \in 1..Len(StatusOrder) : StatusOrder[k] = status

\* C1: every change of a job's status moves forward in the order pending,
\* uploading, processing, transcribing, analyzing, completed, or goes to
\* failed; it never goes back to an earlier value.
C1_StatusNeverMovesBackward ==
    [][\A j \in JobIds :
          (jobs[j].exists /\ jobs'[j].exists /\ jobs'[j].status # jobs[j].status)
              => Rank(jobs'[j].status) > Rank(jobs[j].status)]_vars

\* The text of the segment that owns anomaly number a of a job record.
OwnerText(job, a) ==
    LET k == findIndex(job.segments[1], "id", job.anomalies[1][a].segmentId)
    IN  IF k = 0 THEN Undefined ELSE job.segments[1][k].text

\* A step that serves the request that res already answers with success:
\* the same call made twice in a row.
RepeatedCorrection ==
    /\ userOps' = userOps + 1
    /\ res.op = "corrections" /\ res.code = 200 /\ ~res.applyToSimilar
    /\ res' = res

\* C2: applyCorrection is idempotent per anomaly: the second of two
\* identical calls in a row leaves the owning segment's text as the first
\* call left it.
C2_ApplyCorrectionIdempotent ==
    [][RepeatedCorrection =>
          LET j == res.jobId
              a == findIndex(jobs[j].anomalies[1], "id", res.anomalyId)
          IN  OwnerText(jobs'[j], a) = OwnerText(jobs[j], a)]_vars

\* A step that serves an applyToSimilar request with success.
SimilarStep ==
    /\ userOps' = userOps + 1
    /\ res'.op = "corrections" /\ res'.code = 200 /\ res'.applyToSimilar

\* The anomalies an applyToSimilar call for anomaly id must resolve: the
\* unresolved ones whose flagged text equals its own but for case.
SimilarTargets(anomalies, id) ==
    LET flagged == anomalies[findIndex(anomalies, "id", id)].flaggedText
    IN  {k \in 1..Len(anomalies) :
            /\ ~anomalies[k].resolved
            /\ toLowerCase(anomalies[k].flaggedText) = toLowerCase(flagged)}

\* C3: applyToSimilar resolves exactly the unresolved anomalies whose
\* flagged text matches case-insensitively, reports their number, and
\* leaves every other anomaly, the resolved ones included, as it was.
C3_ApplyToSimilarExact ==
    [][SimilarStep =>
          LET j == res'.jobId
              old == jobs[j].anomalies[1]
              new == jobs'[j].anomalies[1]
              targets == SimilarTargets(old, res'.anomalyId)
          IN  /\ Len(new) = Len(old)
              /\ res'.count = Cardinality(targets)
              /\ \A k \in 1..Len(old) :
                    IF k \in targets
                    THEN /\ new[k].resolved
                         /\ new[k].userCorrection = Some(res'.text)
                         /\ new[k].id = old[k].id
                    ELSE new[k] = old[k]]_vars

\* C3's case is reached: a call resolved two anomalies and passed over a
\* matching one that had been resolved before with another correction.
C3_Witness ==
    /\ res.op = "corrections" /\ res.code = 200 /\ res.applyToSimilar
    /\ res.count >= 2
    /\ LET anomalies == jobs[res.jobId].anomalies[1]
           flagged == anomalies[findIndex(anomalies, "id", res.anomalyId)].flaggedText
       IN  \E k \in 1..Len(anomalies) :
              /\ anomalies[k].resolved
              /\ toLowerCase(anomalies[k].flaggedText) = toLowerCase(flagged)
              /\ anomalies[k].userCorrection # Some(res.text)

\* The segment texts of a job record, by segment id (Undefined: no such segment).
TextOf(segments, segmentId) ==
    LET k == findIndex(segments, "id", segmentId)
    IN  IF k = 0 THEN Undefined ELSE segments[k].text

\* A transcription payload that is not a sequence of objects each with a
\* numeric id, a start time, an end time and a text.
Malformed(payload) ==
    \/ payload.kind # "array"
    \/ \E k \in 1..Len(payload.elems) :
          \/ payload.elems[k].id = UndefinedNum
          \/ payload.elems[k].startTime = Undefined
          \/ payload.elems[k].endTime = Undefined
          \/ payload.elems[k].text = Undefined

\* The text s with its first occurrence of flagged replaced by correction,
\* character for character.
ReplacedText(s, flagged, correction) ==
    LET at == CHOOSE k \in 1..(Len(s) + 1) :
                 /\ SubSeq(s, k, k + Len(flagged) - 1) = flagged
                 /\ \A m \in 1..(k - 1) : SubSeq(s, m, m + Len(flagged) - 1) # flagged
    IN  SubSeq(s, 1, at - 1) \o correction \o SubSeq(s, at + Len(flagged), Len(s))

\* What marking an anomaly resolved must come with: its segment exists and
\* holds the flagged text before the step, and after the step holds the
\* correction in place of that occurrence.
ReplacedBy(before, after, anomaly) ==
    /\ TextOf(before, anomaly.segmentId) # Undefined
    /\ includes(TextOf(before, anomaly.segmentId), anomaly.flaggedText)
    /\ TextOf(after, anomaly.segmentId)
          = ReplacedText(TextOf(before, anomaly.segmentId), anomaly.flaggedText,
                         anomaly.userCorrection[1])

\* C4: an anomaly is marked resolved only in a step that replaces its
\* flagged text by the correction in the owning segment: by a correction
\* request on the stored job, or by the analyzer's merge when it keeps an
\* auto-fixed anomaly (stated for the jobs whose transcript is well formed).
C4_ResolvedImpliesReplaced ==
    [][\A j \in JobIds :
          ~Malformed(pipe[j].resultText) =>
          /\ (jobs[j].exists /\ jobs[j].anomalies # None /\ jobs'[j].anomalies # None)
                => \A k \in 1..Len(jobs[j].anomalies[1]) :
                      (~jobs[j].anomalies[1][k].resolved /\ jobs'[j].anomalies[1][k].resolved)
                          => ReplacedBy(jobs[j].segments[1], jobs'[j].segments[1],
                                        jobs'[j].anomalies[1][k])
          /\ (pipe[j].pc = "merge" /\ pipe'[j].m = pipe[j].m + 1
                /\ Len(pipe'[j].finalAnomalies) > Len(pipe[j].finalAnomalies)
                /\ pipe[j].llmAnomalies[pipe[j].m].resolved)
                => ReplacedBy(pipe[j].segments, pipe'[j].segments,
                              pipe[j].llmAnomalies[pipe[j].m])]_vars

\* C5: after a malformed transcription payload the job is never completed
\* and its segments and anomalies stay absent; when its pipeline has ended
\* the job is failed.
C5_MalformedTranscriptFails ==
    \A j \in JobIds :
        (pipe[j].resultText.kind # "none" /\ Malformed(pipe[j].resultText))
            => /\ jobs[j].status # "completed"
               /\ jobs[j].segments = None
               /\ jobs[j].anomalies = None
               /\ pipe[j].pc \in {"done", "failed"} => jobs[j].status = "failed"

\* The ids of the anomalies a job record holds.
StoredIds(job) == {job.anomalies[1][k].id : k \in 1..Len(job.anomalies[1])}

\* Anomaly c is dropped by deduplication: an earlier candidate (a smaller
\* id) has its segment id and, but for case, its flagged text.
Collides(candidates, c) ==
    \E d \in 1..Len(candidates) :
        /\ candidates[d].id < candidates[c].id
        /\ candidates[d].segmentId = candidates[c].segmentId
        /\ toLowerCase(candidates[d].flaggedText) = toLowerCase(candidates[c].flaggedText)

\* C6: after a well-formed transcript, whatever batches fail, the analysis
\* never fails the job, a batch
\* logged as failed contributes no anomaly, and once the anomalies are
\* stored they hold every rule-pass anomaly and every anomaly of the other
\* batches that deduplication does not drop.
C6_FailedBatchesAbsorbed ==
    \A j \in JobIds :
        ~Malformed(pipe[j].resultText) =>
        /\ pipe[j].pushedBy # <<>> => pipe[j].pc \notin {"catch", "catchHandler", "failed"}
        /\ \A b \in 1..Len(pipe[j].pushedBy) :
              pipe[j].pushedBy[b].i \in pipe[j].logged => pipe[j].pushedBy[b].ids = {}
        /\ pipe[j].pc = "done" =>
              LET candidates == pipe[j].anomalies \o pipe[j].llmAnomalies
              IN  /\ jobs[j].status = "completed"
                  /\ \A c \in 1..Len(candidates) :
                        Collides(candidates, c) \/ candidates[c].id \in StoredIds(jobs[j])

NoDuplicates(anomalies) ==
    \A k, l \in 1..Len(anomalies) :
        (k # l /\ anomalies[k].segmentId = anomalies[l].segmentId)
            => toLowerCase(anomalies[k].flaggedText) # toLowerCase(anomalies[l].flaggedText)

\* The merge of job j is over.
Merged(j) ==
    \/ pipe[j].pc \in {"setSegments", "setAnomalies", "markCompleted", "done"}
    \/ pipe[j].pc = "merge" /\ pipe[j].m > Len(pipe[j].llmAnomalies)

MergeStepOf(j) == pipe[j].pc = "merge" /\ pipe'[j].m = pipe[j].m + 1

\* C10: the merge replaces the flagged text of every auto-fixed item by its
\* suggestion, the empty one included, in the owning segment (when that
\* segment holds the flagged text), and leaves the texts alone for the
\* other items; once the job is done, every auto-fixed anomaly it stores is
\* resolved with the suggestion as userCorrection and a context ending in
\* " (Auto-applied)", and every other reviewer anomaly is unresolved.
C10_AutoFixReplacesAndResolves ==
    /\ [][\A j \in JobIds :
             (MergeStepOf(j) /\ ~Malformed(pipe[j].resultText)) =>
                LET a == pipe[j].llmAnomalies[pipe[j].m]
                    before == TextOf(pipe[j].segments, a.segmentId)
                IN  IF a.userCorrection # None
                    THEN (before # Undefined /\ includes(before, a.flaggedText))
                            => TextOf(pipe'[j].segments, a.segmentId)
                                  = ReplacedText(before, a.flaggedText, a.suggestion)
                    ELSE pipe'[j].segments = pipe[j].segments]_vars
    /\ [](\A j \in JobIds :
             (pipe[j].pc = "setAnomalies" /\ ~Malformed(pipe[j].resultText)) =>
                \A k \in 1..Len(pipe[j].finalAnomalies) :
                   LET a == pipe[j].finalAnomalies[k]
                   IN  a.id \in {pipe[j].llmAnomalies[c].id : c \in 1..Len(pipe[j].llmAnomalies)}
                          => IF a.userCorrection # None
                             THEN /\ a.resolved
                                  /\ a.userCorrection = Some(a.suggestion)
                                  /\ a.context[Len(a.context)] = " (Auto-applied)"
                             ELSE ~a.resolved)

\* The entries of segs in order, one "\n" between two consecutive entries
\* and nothing after the last.
RECURSIVE ExpectedExport(_)
ExpectedExport(segs) ==
    IF segs = <<>> THEN <<>>
    ELSE LET seg == Head(segs)
             entry == numToString(seg.id) \o <<"\n">> \o seg.startTime
                      \o <<" ", "-", "-", ">", " ">> \o seg.endTime \o <<"\n">>
                      \o seg.text \o <<"\n">>
         IN  IF Len(segs) = 1 THEN entry
             ELSE entry \o <<"\n">> \o ExpectedExport(Tail(segs))

\* C8: each of the three exports of a sequence of segments is the
\* concatenation of its entries "<id>\n<start> --> <end>\n<text>\n" in
\* order with one more "\n" between consecutive entries and nothing after
\* the last, so the three exports of the same segments are equal.
C8_ExportFormat ==
    /\ fnOut.server # NotRun => fnOut.server = ExpectedExport(fnIn)
    /\ fnOut.home # NotRun => fnOut.home = ExpectedExport(fnIn)
    /\ fnOut.panel # NotRun => fnOut.panel = ExpectedExport(fnIn)
    /\ (fnOut.server # NotRun /\ fnOut.home # NotRun /\ fnOut.panel # NotRun)
          => (fnOut.server = fnOut.home /\ fnOut.home = fnOut.panel)

\* The three exports have run on three segments, one with an empty text and
\* one with a two-digit id.
C8_Witness ==
    /\ Len(fnIn) = 3
    /\ \E k \in 1..3 : fnIn[k].text = <<>> /\ fnIn[k].id = 12
    /\ fnIn[3].id = 1
    /\ fnOut.server # NotRun /\ fnOut.home # NotRun /\ fnOut.panel # NotRun

\* The words of s, in order: its maximal runs of word characters.
WordsOf(s) ==
    LET starts == {i \in 1..Len(s) : IsWordChar(s[i]) /\ (i = 1 \/ ~IsWordChar(s[i - 1]))}
        endOf(i) == CHOOSE e \in i..Len(s) :
                       /\ \A k \in i..e : IsWordChar(s[k])
                       /\ e = Len(s) \/ ~IsWordChar(s[e + 1])
        nth[n \in 1..Cardinality(starts)] ==
            CHOOSE i \in starts : Cardinality({x \in starts : x < i}) = n - 1
    IN  [n \in 1..Cardinality(starts) |-> SubSeq(s, nth[n], endOf(nth[n]))]

\* The immediately repeated words of words from k on, each word counted in
\* one repetition at most.
RECURSIVE Repetitions(_, _)
Repetitions(words, k) ==
    IF k >= Len(words) THEN 0
    ELSE IF toLowerCase(words[k]) = toLowerCase(words[k + 1])
         THEN 1 + Repetitions(words, k + 2)
         ELSE Repetitions(words, k + 1)

\* C9: the rule pass emits one anomaly for each immediately repeated word of
\* a segment's text, none for a text without repetition, and every anomaly
\* is an unresolved grammar_issue of confidence 0.9 whose suggestion is one
\* word and whose flaggedText is that word twice, up to case.
C9_OneAnomalyPerRepeatedWord ==
    fnOut.ran =>
        /\ Len(fnOut.anomalies) = Repetitions(WordsOf(fnIn), 1)
        /\ \A k \in 1..Len(fnOut.anomalies) :
              /\ ~fnOut.anomalies[k].resolved
              /\ fnOut.anomalies[k].type = "grammar_issue"
              /\ fnOut.anomalies[k].confidence = 90
              /\ Len(WordsOf(fnOut.anomalies[k].flaggedText)) = 2
              /\ \A w \in 1..2 :
                    toLowerCase(WordsOf(fnOut.anomalies[k].flaggedText)[w])
                       = toLowerCase(fnOut.anomalies[k].suggestion)

\* C11: a failed job carries an error message, and not the empty one,
\* whatever the pipeline threw.
C11_FailedHasErrorMessage ==
    \A j \in JobIds :
        (jobs[j].exists /\ jobs[j].status = "failed") =>
            /\ jobs[j].errorMessage # None
            /\ jobs[j].errorMessage[1] # ""

\* C12: a failed job has neither segments nor anomalies, wherever the
\* pipeline failed.
C12_FailedHasNoTranscript ==
    \A j \in JobIds :
        (jobs[j].exists /\ jobs[j].status = "failed") =>
            /\ jobs[j].segments = None
            /\ jobs[j].anomalies = None

\* The analysis of job j failed after its transcript was parsed, and the job
\* is failed.
C12_Witness ==
    \E j \in JobIds :
        /\ jobs[j].exists /\ jobs[j].status = "failed"
        /\ pipe[j].pc = "failed"
        /\ Len(pipe[j].segments) > 0

\* C13: a completed job has its segments and its anomalies: both are
\* persisted before the job is marked completed.
C13_CompletedHasTranscript ==
    \A j \in JobIds :
        (jobs[j].exists /\ jobs[j].status = "completed") =>
            /\ jobs[j].segments # None
            /\ jobs[j].anomalies # None

\* C14: under SpecLive, every job whose pipeline was started ends up
\* completed or failed.
C14_StartedJobsTerminate ==
    \A j \in JobIds :
        (pipe[j].pc # "idle")
            ~> (jobs[j].exists /\ jobs[j].status \in {"completed", "failed"})

\* A pipeline that caught a thrown null has ended, and its job is failed.
C14_Witness ==
    \E j \in JobIds :
        /\ pipe[j].pc = "failed"
        /\ pipe[j].err.nullish
        /\ jobs[j].status = "failed"

\* C15: a job that is completed stays completed and a job that is failed
\* stays failed, whatever step comes next: of a pipeline, of the upload
\* handler, a correction, a manual edit or a cleanup.
C15_TerminalStatusesAbsorbing ==
    [][\A j \in JobIds :
          (jobs[j].exists /\ jobs[j].status \in {"completed", "failed"})
             => (jobs'[j].exists /\ jobs'[j].status = jobs[j].status)]_vars

\* A completed job whose pipeline has ended and whose uploaded file a
\* cleanup has deleted.
C15_Witness ==
    \E j \in JobIds :
        /\ jobs[j].exists /\ jobs[j].status = "completed"
        /\ pipe[j].pc = "done"
        /\ ~pipe[j].localFile
        /\ res.op = "cleanup" /\ res.jobId = j

\* A step that serves a manual edit.
PatchStep == userOps' = userOps + 1 /\ res'.op = "segments"

\* C16: a manual edit changes the text of the named segment and nothing
\* else: the anomalies, the other segments, the segment's id, originalText
\* and timings, and the job's status, progress and error message stay as
\* they were, and so does every other job.
C16_UpdateSegmentTextFrame ==
    [][PatchStep =>
         \A j \in JobIds :
            IF j = res'.jobId /\ jobs[j].exists /\ jobs[j].segments # None
            THEN LET before == jobs[j].segments[1]
                     after  == jobs'[j].segments[1]
                 IN  /\ jobs'[j] = [jobs[j] EXCEPT !.segments = jobs'[j].segments]
                     /\ jobs'[j].segments # None
                     /\ Len(after) = Len(before)
                     /\ \A k \in 1..Len(before) :
                           \/ after[k] = before[k]
                           \/ /\ before[k].id = res'.segmentId
                              /\ after[k] = [before[k] EXCEPT !.text = res'.text]
                     /\ (\E k \in 1..Len(before) : before[k].id = res'.segmentId)
                           => \E k \in 1..Len(before) :
                                 before[k].id = res'.segmentId /\ after[k].text = res'.text
            ELSE jobs'[j] = jobs[j]]_vars

\* A manual edit has overwritten the text of a segment of a job that has a
\* resolved anomaly.
C16_Witness ==
    /\ res.op = "segments" /\ res.code = 200
    /\ jobs[res.jobId].exists /\ jobs[res.jobId].segments # None
    /\ jobs[res.jobId].anomalies # None
    /\ \E k \in 1..Len(jobs[res.jobId].segments[1]) :
          LET seg == jobs[res.jobId].segments[1][k]
          IN  seg.id = res.segmentId /\ seg.text = res.text /\ seg.originalText # res.text
    /\ \E k \in 1..Len(jobs[res.jobId].anomalies[1]) :
          jobs[res.jobId].anomalies[1][k].resolved

\* The job, the anomaly or the segment a served request names is unknown.
NamesUnknown ==
    \/ /\ res.op \in {"corrections", "segments"}
       /\ ~jobs[res.jobId].exists
    \/ /\ res.op = "corrections"
       /\ jobs[res.jobId].exists
       /\ \/ jobs[res.jobId].anomalies = None
          \/ \A k \in 1..Len(jobs[res.jobId].anomalies[1]) :
                jobs[res.jobId].anomalies[1][k].id # res.anomalyId
    \/ /\ res.op = "segments"
       /\ jobs[res.jobId].exists
       /\ \/ jobs[res.jobId].segments = None
          \/ \A k \in 1..Len(jobs[res.jobId].segments[1]) :
                jobs[res.jobId].segments[1][k].id # res.segmentId

\* C17: a correction or a manual edit that names an unknown job, anomaly or
\* segment is answered 404 (not found), never as a success, and changes no
\* job.
C17_UnknownIdsReportedNotFound ==
    /\ [](NamesUnknown => res.code = 404)
    /\ [][(userOps' = userOps + 1 /\ NamesUnknown') => jobs' = jobs]_vars

\* What a correction request q makes of a job when it is served alone,
\* from its arrival to its response.
ServedAlone(job, q) ==
    LET a == IF job.exists /\ job.anomalies # None
             THEN findIndex(job.anomalies[1], "id", q.anomalyId) ELSE 0
    IN  IF a = 0 THEN job
        ELSE IF q.applyToSimilar
        THEN applySimilarCorrections(job, job.anomalies[1][a].flaggedText,
                                     q.correction).job
        ELSE applyCorrection(job, q.anomalyId, q.correction)

\* Two requests that have both been applied, against two different
\* anomalies of job 1.
BothApplied(r1, r2) ==
    /\ r1 # r2
    /\ reqs[r1].pc \in {"respond", "done"} /\ reqs[r2].pc \in {"respond", "done"}
    /\ reqs[r1].jobId = 1 /\ reqs[r2].jobId = 1
    /\ reqs[r1].anomalyId # 0 /\ reqs[r2].anomalyId # 0
    /\ reqs[r1].anomalyId # reqs[r2].anomalyId

\* C18: however the tasks of two correction requests against two different
\* anomalies of one job interleave, both requests are answered 200 and the
\* job is what serving them one after the other, in one order or the other,
\* makes of it: its segment texts have gone through both replacements; and
\* when both are plain corrections, each anomaly is resolved and records
\* the correction of its own request.
C18_ConcurrentCorrectionsBothApplied ==
    \A r1, r2 \in Requests :
        BothApplied(r1, r2) =>
            /\ reqs[r1].code = 200 /\ reqs[r2].code = 200
            /\ jobs[1] \in {ServedAlone(ServedAlone(AnalysedJob, reqs[r1]), reqs[r2]),
                            ServedAlone(ServedAlone(AnalysedJob, reqs[r2]), reqs[r1])}
            /\ (~reqs[r1].applyToSimilar /\ ~reqs[r2].applyToSimilar) =>
                  \A r \in {r1, r2} :
                      LET a == findIndex(jobs[1].anomalies[1], "id", reqs[r].anomalyId)
                      IN  /\ a # 0
                          /\ jobs[1].anomalies[1][a].resolved
                          /\ jobs[1].anomalies[1][a].userCorrection
                                = Some(reqs[r].correction)

\* Both handlers are between their storage call and their response, one
\* having corrected "a a" and the other "b b" of segment 3, and the text of
\* that segment shows both corrections.
C18_Witness ==
    /\ reqs[1].pc = "respond" /\ reqs[2].pc = "respond"
    /\ BothApplied(1, 2)
    /\ ~reqs[1].applyToSimilar /\ ~reqs[2].applyToSimilar
    /\ reqs[1].correction = there /\ reqs[2].correction = the
    /\ \E a1, a2 \in 1..Len(AnalysedJob.anomalies[1]) :
          /\ AnalysedJob.anomalies[1][a1].id = reqs[1].anomalyId
          /\ AnalysedJob.anomalies[1][a2].id = reqs[2].anomalyId
          /\ AnalysedJob.anomalies[1][a1].segmentId = 3
          /\ AnalysedJob.anomalies[1][a2].segmentId = 3
          /\ AnalysedJob.anomalies[1][a1].flaggedText = <<"a", " ", "a">>
    /\ TextOf(jobs[1].segments[1], 3) = there \o sp \o the

\* C19: once a job is completed or failed, the temporary audio file that
\* the extraction produced for it is gone.
C19_TempAudioDeleted ==
    \A j \in JobIds :
        (jobs[j].exists /\ jobs[j].status \in {"completed", "failed"})
            => ~pipe[j].tempAudio

C21_FailedOnlyThroughSetError ==
    [][\A j \in JobIds :
          /\ (jobs[j].exists /\ jobs[j].status # "failed" /\ jobs'[j].status = "failed")
                => /\ pipe[j].pc \in {"catch", "catchHandler"}
                   /\ jobs'[j].errorMessage # None
                   /\ jobs'[j] = updateJobError(jobs[j], jobs'[j].errorMessage[1])
          /\ (jobs[j].exists /\ pipe[j].pc = "catch" /\ pipe'[j].pc = "catchHandler")
                => jobs'[j].status = "failed"]_vars

\* A job that failed while its status was "analyzing": the transcription
\* had returned an array.
C21_Witness ==
    \E j \in JobIds :
        /\ jobs[j].exists /\ jobs[j].status = "failed"
        /\ pipe[j].resultText.kind = "array"
        /\ jobs[j].progress = 85

\* C22: the segments stored on a job are those of the transcription call's
\* payload, one for one, and each one's originalText is the text the payload
\* holds for it; no later step (a correction, a correction of similar
\* anomalies, a manual edit) changes an originalText.
C22_OriginalTextIsTranscript ==
    /\ [](\A j \in JobIds :
             (jobs[j].exists /\ jobs[j].segments # None) =>
                /\ pipe[j].resultText.kind = "array"
                /\ Len(jobs[j].segments[1]) = Len(pipe[j].resultText.elems)
                /\ \A k \in 1..Len(jobs[j].segments[1]) :
                      jobs[j].segments[1][k].originalText
                          = pipe[j].resultText.elems[k].text)
    /\ [][\A j \in JobIds :
             (jobs[j].exists /\ jobs[j].segments # None) =>
                /\ jobs'[j].segments # None
                /\ Len(jobs'[j].segments[1]) = Len(jobs[j].segments[1])
                /\ \A k \in 1..Len(jobs[j].segments[1]) :
                      jobs'[j].segments[1][k].originalText
                          = jobs[j].segments[1][k].originalText]_vars

\* A stored job of which one segment was rewritten by an auto-fix and one
\* by a manual edit that was answered 200.
C22_Witness ==
    \E j \in JobIds :
        /\ jobs[j].exists /\ jobs[j].segments # None /\ jobs[j].anomalies # None
        /\ res.code = 200 /\ res.op = "segments" /\ res.jobId = j
        /\ \E k \in 1..Len(jobs[j].segments[1]) :
              /\ jobs[j].segments[1][k].text # jobs[j].segments[1][k].originalText
              /\ \E a \in 1..Len(jobs[j].anomalies[1]) :
                    /\ jobs[j].anomalies[1][a].segmentId = jobs[j].segments[1][k].id
                    /\ jobs[j].anomalies[1][a].resolved
                    /\ jobs[j].anomalies[1][a].confidence = 95
        /\ \E k \in 1..Len(jobs[j].segments[1]) :
              /\ jobs[j].segments[1][k].text # jobs[j].segments[1][k].originalText
              /\ jobs[j].segments[1][k].id = res.segmentId
              /\ jobs[j].segments[1][k].text = res.text

\* C23: updateJobError is called once at most for a job, the pipeline of a
\* failed job has called it exactly once, and when an Error with a message
\* was thrown the stored error message is that message.
C23_SetErrorOnce ==
    \A j \in JobIds :
        /\ pipe[j].setErrorCalls <= 1
        /\ pipe[j].pc = "failed" =>
              /\ pipe[j].setErrorCalls = 1
              /\ (pipe[j].err.isError /\ pipe[j].err.message # "")
                    => jobs[j].errorMessage = Some(pipe[j].err.message)

\* C24: while the pipeline of a job waits for ffmpeg the stored status is
\* "processing", while it waits for the transcription call it is
\* "transcribing", while it waits for a review batch it is "analyzing"; a
\* pipeline waits for one call at a time, so that the extraction is over
\* (its one call was counted) before the transcription call of a video is
\* issued, and the transcription call is over before a batch is reviewed.
C24_StatusVisibleBeforeCall ==
    \A j \in JobIds :
        /\ pipe[j].pc = "extracting" =>
              /\ jobs[j].status = "processing"
              /\ pipe[j].transcribeCalls = 0
        /\ pipe[j].pc = "transcribing" =>
              /\ jobs[j].status = "transcribing"
              /\ pipe[j].resultText.kind = "none"
              /\ pipe[j].llmAnomalies = <<>>
        /\ pipe[j].pc = "llmBatch" =>
              /\ jobs[j].status = "analyzing"
              /\ pipe[j].transcribeCalls = 1
              /\ pipe[j].resultText.kind = "array"

\* The second review batch of a video job is in flight.
C24_Witness ==
    \E j \in JobIds :
        /\ pipe[j].pc = "llmBatch" /\ pipe[j].i > 0
        /\ pipe[j].extractCalls = 1 /\ pipe[j].transcribeCalls = 1
        /\ jobs[j].status = "analyzing"

\* C25: every anomaly stored on a job names one segment of that job:
\* exactly one segment of the stored list has the anomaly's segmentId as id.
C25_AnomalyTiedToOneSegment ==
    \A j \in JobIds :
        (jobs[j].exists /\ jobs[j].anomalies # None /\ jobs[j].segments # None) =>
            \A a \in 1..Len(jobs[j].anomalies[1]) :
                Cardinality({k \in 1..Len(jobs[j].segments[1]) :
                                jobs[j].segments[1][k].id
                                    = jobs[j].anomalies[1][a].segmentId}) = 1

\* A step that serves a plain correction request with success.
PlainCorrectionStep ==
    /\ userOps' = userOps + 1
    /\ res'.op = "corrections" /\ res'.code = 200 /\ ~res'.applyToSimilar

\* C26: a plain correction of an existing anomaly marks that anomaly
\* resolved with the correction recorded and leaves every other anomaly as
\* it was; the owning segment held the flagged text, and its text after the
\* step is its text before with the first occurrence of the flagged text,
\* matched character for character, replaced by the correction; every other
\* segment, and the other fields of the owning one, are as they were.
C26_ApplyCorrectionEffect ==
    [][PlainCorrectionStep =>
         LET j == res'.jobId
             before == jobs[j]
             after == jobs'[j]
             a == findIndex(before.anomalies[1], "id", res'.anomalyId)
             anomaly == before.anomalies[1][a]
             s == findIndex(before.segments[1], "id", anomaly.segmentId)
         IN  /\ Len(after.anomalies[1]) = Len(before.anomalies[1])
             /\ after.anomalies[1][a].resolved
             /\ after.anomalies[1][a].userCorrection = Some(res'.text)
             /\ after.anomalies[1][a].id = anomaly.id
             /\ after.anomalies[1][a].segmentId = anomaly.segmentId
             /\ after.anomalies[1][a].flaggedText = anomaly.flaggedText
             /\ \A k \in 1..Len(before.anomalies[1]) :
                   k # a => after.anomalies[1][k] = before.anomalies[1][k]
             /\ s # 0
             /\ includes(before.segments[1][s].text, anomaly.flaggedText)
             /\ after.segments[1]
                   = [before.segments[1] EXCEPT
                         ![s].text = ReplacedText(@, anomaly.flaggedText, res'.text)]]_vars

\* The step is an operation on job j: a step of its pipeline, or a request
\* that names it.
OperationOn(j) ==
    \/ pipe'[j] # pipe[j]
    \/ userOps' = userOps + 1 /\ res'.jobId = j

\* C27: a step is an operation on one job, and it leaves the record of the
\* other job (its status, progress, error message, segments and anomalies)
\* as it was, however the pipelines of the two jobs interleave.
C27_JobsIndependent ==
    [][\A j1, j2 \in JobIds :
          (j1 # j2 /\ OperationOn(j1)) =>
              /\ ~OperationOn(j2)
              /\ jobs'[j2] = jobs[j2]]_vars

\* Both jobs hold a segment 1 and an anomaly 1; a correction of anomaly 1 of
\* job 1 was answered 200 and anomaly 1 of job 2 is unresolved, while the
\* pipeline of job 2 is still running.
C27_Witness ==
    /\ res.op = "corrections" /\ res.code = 200 /\ res.jobId = 1 /\ res.anomalyId = 1
    /\ jobs[1].exists /\ jobs[1].anomalies # None
    /\ jobs[1].anomalies[1][1].resolved
    /\ jobs[2].exists /\ jobs[2].anomalies # None
    /\ ~jobs[2].anomalies[1][1].resolved
    /\ jobs[2].segments[1][1].text = ther \o sp \o ther
    /\ pipe[2].pc = "markCompleted"

\* C28: the progress of a job is within 0..100, and no step takes it from
\* a value to a smaller one.
C28_ProgressNeverDecreases ==
    /\ [](\A j \in JobIds : jobs[j].exists => jobs[j].progress \in 0..100)
    /\ [][\A j \in JobIds :
             (jobs[j].exists /\ jobs'[j].exists)
                 => jobs'[j].progress >= jobs[j].progress]_vars

\* C29: when the pipeline has stored the segments and the anomalies of a
\* job, every stored segment whose text differs from its originalText has
\* a resolved anomaly on its id in the stored anomalies.
C29_AnalyzerChangesRecorded ==
    \A j \in JobIds :
        (pipe[j].pc = "markCompleted" /\ jobs[j].exists) =>
            \A k \in 1..Len(jobs[j].segments[1]) :
                jobs[j].segments[1][k].text # jobs[j].segments[1][k].originalText
                    => \E a \in 1..Len(jobs[j].anomalies[1]) :
                          /\ jobs[j].anomalies[1][a].segmentId = jobs[j].segments[1][k].id
                          /\ jobs[j].anomalies[1][a].resolved

\* C30: once a job holds anomalies, no step adds, removes, replaces or
\* reorders an anomaly (the list keeps its ids, and each anomaly its
\* segment and flagged text), and no step takes a resolved flag from true
\* back to false.
C30_AnomaliesKeptAndResolvedSticks ==
    [][\A j \in JobIds :
          (jobs[j].exists /\ jobs[j].anomalies # None) =>
              /\ jobs'[j].exists /\ jobs'[j].anomalies # None
              /\ Len(jobs'[j].anomalies[1]) = Len(jobs[j].anomalies[1])
              /\ \A a \in 1..Len(jobs[j].anomalies[1]) :
                    /\ jobs'[j].anomalies[1][a].id = jobs[j].anomalies[1][a].id
                    /\ jobs'[j].anomalies[1][a].segmentId = jobs[j].anomalies[1][a].segmentId
                    /\ jobs'[j].anomalies[1][a].flaggedText
                          = jobs[j].anomalies[1][a].flaggedText
                    /\ jobs[j].anomalies[1][a].resolved
                          => jobs'[j].anomalies[1][a].resolved]_vars

\* A job of several anomalies after a correction of an anomaly that was
\* resolved already: an auto-fixed one, corrected by a request answered 200.
C30_Witness ==
    \E j \in JobIds :
        /\ jobs[j].exists /\ jobs[j].anomalies # None
        /\ Len(jobs[j].anomalies[1]) >= 2
        /\ res.op = "corrections" /\ res.code = 200 /\ res.jobId = j
        /\ \E a \in 1..Len(jobs[j].anomalies[1]) :
              /\ jobs[j].anomalies[1][a].id = res.anomalyId
              /\ jobs[j].anomalies[1][a].confidence = 95
              /\ jobs[j].anomalies[1][a].resolved
              /\ jobs[j].anomalies[1][a].userCorrection = Some(res.text)
              /\ jobs[j].anomalies[1][a].suggestion # res.text

====
